---- MODULE Spec2Model ----
(***************************************************************************)
(* Model of NetworkAnalysis.py: number_infected and the NetworkAnalysis    *)
(* class (generate_new_network, immunize_node, infect_random_node,         *)
(* spread_infection_for_n_days, spread_infection).                         *)
(*                                                                         *)
(* Node ids are 0..nodeCount-1, as in the source.  Lists indexed by node   *)
(* (infectionMatrix) and the adjacency of the networkx Graph are functions *)
(* on 0..nodeCount-1.  Probabilities are percentages; random.random() is   *)
(* a point of [0,100) and only the outcome of "random.random() < p" is     *)
(* kept.  Centrality scores are exact rationals, kept as the integer       *)
(* numerators over one common positive denominator per graph.              *)
(***************************************************************************)
EXTENDS Integers, Sequences, FiniteSets, TLC

\* ---------------------------------------------------------------- bounds
MaxNodes == 3       \* nodes of a network in SpecTrial
MaxDays == 3        \* the days parameter
MaxTrials == 2      \* the networks parameter in Spec
MaxScore == 1       \* scores eigenvector_centrality can give are 0..MaxScore
SmallNodes == 2     \* nodes of a network in Spec
CompleteNodes == 5  \* nodes of a network in SpecComplete

VARIABLES
    nodeCount,        \* NODE_COUNT, passed to generate_new_network
    centrality,       \* the measure name passed to number_infected
    days,             \* the argument days of spread_infection_for_n_days
    networks,         \* parameter networks of number_infected
    edgeProbability,  \* EDGE_PROBABILITY, in percent
    infectionRate,    \* INFECTION_RATE, in percent
    network,          \* self.network: adjacency, node -> set of neighbours
    infectionMatrix,  \* self.infectionMatrix
    immune,           \* self.immune
    examined,         \* the pairs (i, j) the edge loop has drawn for, in order
    drawn,            \* the pairs whose draw on line 101 was below EDGE_PROBABILITY
    picked,           \* the node immunize_node selected (line 127 or line 138)
    dictionary,       \* local of immunize_node: the scores
    nodes,            \* local of immunize_node: the tied leaders
    current_node,     \* local of infect_random_node
    day,              \* loop counter of spread_infection_for_n_days
    total_infected,   \* local of spread_infection_for_n_days
    trial,            \* loop counter i of number_infected
    total,            \* local total of number_infected
    caller,           \* who called generate_new_network: "ctor" or "trial"
    pc                \* position in the program

config == <<nodeCount, centrality, networks, edgeProbability, infectionRate>>
object == <<network, infectionMatrix, immune>>
locals == <<examined, drawn, picked, dictionary, nodes, current_node, days, day, total_infected>>
driver == <<trial, total, caller>>
vars == <<config, object, locals, driver, pc>>

\* ------------------------------------------------------------ the inputs
CENTRALITIES == {"random", "degree", "closeness", "clustering", "betweenness", "eigenvector"}

\* The measure names tried: the six of CENTRALITIES and one outside them.
Measures == CENTRALITIES \cup {"other"}

\* Values of EDGE_PROBABILITY and INFECTION_RATE, in percent.
Probabilities == {0, 50, 100}

\* Points of [0, 100) that random.random() can return.
RandomSamples == {0, 99}

Range(n) == 0 .. (n - 1)

\* The outcomes of "random.random() <= p".
BernoulliLE(p) == {r <= p : r \in RandomSamples}

\* The outcomes "random.random() < p" can have (lines 101 and 171).
Bernoulli(p) == {r < p : r \in RandomSamples}


\* ------------------------------------------------- generate_new_network
\* The pairs the loops of lines 99-100 range over.
LoopPairs(n) == {p \in Range(n) \X Range(n) : p[1] < p[2]}

\* nx.Graph() with nodes 0..n-1 added and no edge (lines 85, 95-96).
EmptyGraph(n) == [v \in Range(n) |-> {}]

\* network.add_edge(i, j) on an undirected simple Graph: both directions.
add_edge(adj, i, j) == [adj EXCEPT ![i] = @ \cup {j}, ![j] = @ \cup {i}]

\* Lines 99-102 with the inner loop started at j = i (a pair with itself
\* is drawn for, and every such draw adds the edge).
RECURSIVE EdgeLoopFromI(_, _, _, _, _)
EdgeLoopFromI(i, j, n, r, g) ==
    IF i >= n THEN g
    ELSE IF j >= n THEN EdgeLoopFromI(i + 1, i + 1, n, r, g)
    ELSE EdgeLoopFromI(i, j + 1, n, r,
            [adj |-> IF (i = j) \/ r[<<i, j>>] THEN add_edge(g.adj, i, j) ELSE g.adj,
             examined |-> Append(g.examined, <<i, j>>)])

GenerateEdgesFromI(n, r) ==
    EdgeLoopFromI(0, 0, n, r, [adj |-> EmptyGraph(n), examined |-> <<>>])

\* Lines 99-102: for i in range(n): for j in range(i + 1, n): one draw r[i, j],
\* and the edge when the draw succeeds.
RECURSIVE EdgeLoop(_, _, _, _, _)
EdgeLoop(i, j, n, r, g) ==
    IF i >= n THEN g
    ELSE IF j >= n THEN EdgeLoop(i + 1, i + 2, n, r, g)
    ELSE EdgeLoop(i, j + 1, n, r,
            [adj |-> IF r[<<i, j>>] THEN add_edge(g.adj, i, j) ELSE g.adj,
             examined |-> Append(g.examined, <<i, j>>)])

GenerateEdges(n, r) ==
    EdgeLoop(0, 1, n, r, [adj |-> EmptyGraph(n), examined |-> <<>>])

\* ------------------------------------------------------ graph measures
RECURSIVE Product(_)
Product(S) ==
    IF S = {} THEN 1
    ELSE LET x == CHOOSE y \in S : TRUE IN x * Product(S \ {x})

RECURSIVE SumOver(_, _)
SumOver(S, f) ==
    IF S = {} THEN 0
    ELSE LET x == CHOOSE y \in S : TRUE IN f[x] + SumOver(S \ {x}, f)

Degree(adj, v) == Cardinality(adj[v])

\* Breadth-first search from the nodes of frontier, which are at distance k.
RECURSIVE BfsDist(_, _, _, _, _)
BfsDist(adj, frontier, seen, t, k) ==
    IF t \in frontier THEN k
    ELSE LET next == (UNION {adj[u] : u \in frontier}) \ seen
         IN IF next = {} THEN -1 ELSE BfsDist(adj, next, seen \cup next, t, k + 1)

\* Shortest-path distance, -1 when t is not reachable from s.
Dist(adj, s, t) == BfsDist(adj, {s}, {s}, t, 0)

\* Number of shortest paths from s to t (0 when unreachable): the paths to
\* the neighbours of t that are one step nearer to s.
RECURSIVE Sigma(_, _, _)
Sigma(adj, s, t) ==
    IF Dist(adj, s, t) < 0 THEN 0
    ELSE IF s = t THEN 1
    ELSE LET preds == {u \in adj[t] : Dist(adj, s, u) = Dist(adj, s, t) - 1}
         IN SumOver(preds, [u \in preds |-> Sigma(adj, s, u)])

\* Number of shortest s-t paths through v, v not an endpoint.
SigmaThrough(adj, s, t, v) ==
    IF /\ Dist(adj, s, t) >= 0 /\ Dist(adj, s, v) >= 0 /\ Dist(adj, v, t) >= 0
       /\ Dist(adj, s, v) + Dist(adj, v, t) = Dist(adj, s, t)
    THEN Sigma(adj, s, v) * Sigma(adj, v, t)
    ELSE 0

\* degree_centrality: d / (n - 1), and 1 for every node when n <= 1.
\* Numerators over the denominator n - 1.
degree_centrality(adj) ==
    LET n == Cardinality(DOMAIN adj)
    IN [v \in DOMAIN adj |-> IF n <= 1 THEN 1 ELSE Degree(adj, v)]

\* closeness_centrality (wf_improved): with r the nodes reachable from v
\* (v included) and t the sum of their distances, ((r-1)/t) * ((r-1)/(n-1)),
\* and 0 when t = 0 or n <= 1.  Numerators over (n - 1) * den.
closeness_centrality(adj) ==
    LET n == Cardinality(DOMAIN adj)
        reach == [v \in DOMAIN adj |-> {u \in DOMAIN adj : Dist(adj, v, u) >= 0}]
        totsp == [v \in DOMAIN adj |->
                    SumOver(reach[v], [u \in reach[v] |-> Dist(adj, v, u)])]
        den == Product({totsp[v] : v \in DOMAIN adj} \ {0})
    IN [v \in DOMAIN adj |->
          IF totsp[v] > 0 /\ n > 1
          THEN ((Cardinality(reach[v]) - 1) * (Cardinality(reach[v]) - 1) * den) \div totsp[v]
          ELSE 0]

\* clustering: with d the degree of v and T the triangles through v,
\* 2T / (d (d - 1)), and 0 when T = 0.  Numerators over den.
clustering(adj) ==
    LET tri == [v \in DOMAIN adj |->
                  Cardinality({e \in adj[v] \X adj[v] :
                                  e[1] < e[2] /\ e[2] \in adj[e[1]]})]
        dd == [v \in DOMAIN adj |-> Degree(adj, v) * (Degree(adj, v) - 1)]
        den == Product({dd[v] : v \in DOMAIN adj} \ {0})
    IN [v \in DOMAIN adj |->
          IF tri[v] = 0 THEN 0 ELSE (2 * tri[v] * den) \div dd[v]]

\* betweenness_centrality (normalized, no endpoints): the sum over the pairs
\* s < t that avoid v of sigma_st(v) / sigma_st, times a positive factor that
\* is the same for every node.  Numerators over den.
betweenness_centrality(adj) ==
    LET pairs == {p \in (DOMAIN adj) \X (DOMAIN adj) : p[1] < p[2] /\ Sigma(adj, p[1], p[2]) > 0}
        den == Product({Sigma(adj, p[1], p[2]) : p \in pairs})
    IN [v \in DOMAIN adj |->
          LET ps == {p \in pairs : p[1] # v /\ p[2] # v}
          IN SumOver(ps, [p \in ps |->
                (SigmaThrough(adj, p[1], p[2], v) * den) \div Sigma(adj, p[1], p[2])])]

\* eigenvector_centrality is a floating-point power iteration: any
\* non-negative score per node is allowed here (its failure to converge is
\* a separate outcome, see immunize_node_raise).
eigenvector_centrality(adj) == [DOMAIN adj -> 0 .. MaxScore]

\* The score mappings immunize_node can obtain at lines 116-125.
Scores(measure, adj) ==
    CASE measure = "degree" -> {degree_centrality(adj)}
      [] measure = "closeness" -> {closeness_centrality(adj)}
      [] measure = "clustering" -> {clustering(adj)}
      [] measure = "betweenness" -> {betweenness_centrality(adj)}
      [] measure = "eigenvector" -> eigenvector_centrality(adj)
      [] OTHER -> {}

\* ------------------------------------------------------- immunize_node
\* Lines 130-137 without nodes.clear().
RECURSIVE LeaderLoopNoClear(_, _, _, _, _)
LeaderLoopNoClear(i, n, dict, max, lst) ==
    IF i >= n THEN lst
    ELSE LET m2 == IF dict[i] > max THEN dict[i] ELSE max
         IN LeaderLoopNoClear(i + 1, n, dict, m2,
                IF dict[i] >= m2 THEN Append(lst, i) ELSE lst)

LeadersNoClear(dict) == LeaderLoopNoClear(0, Cardinality(DOMAIN dict), dict, -1, <<>>)

\* Lines 130-137: nodes = [], max = -1, and for each node in insertion order
\* a new maximum clears the list, a score >= max appends the node.
RECURSIVE LeaderLoop(_, _, _, _, _)
LeaderLoop(i, n, dict, max, lst) ==
    IF i >= n THEN lst
    ELSE LET m2 == IF dict[i] > max THEN dict[i] ELSE max
             kept == IF dict[i] > max THEN <<>> ELSE lst
         IN LeaderLoop(i + 1, n, dict, m2,
                IF dict[i] >= m2 THEN Append(kept, i) ELSE kept)

Leaders(dict) == LeaderLoop(0, Cardinality(DOMAIN dict), dict, -1, <<>>)

\* ---------------------------------------------------- spread_infection
\* Lines 167-173 reading updated_list instead of the snapshot
\* self.infectionMatrix (a draw not made in the snapshot run succeeds).
RECURSIVE SpreadLoopInPlace(_, _, _, _, _)
SpreadLoopInPlace(i, updated, adj, imm, b) ==
    IF i >= Cardinality(DOMAIN updated) THEN updated
    ELSE SpreadLoopInPlace(i + 1,
            IF updated[i]
            THEN [j \in DOMAIN updated |->
                    \/ updated[j]
                    \/ /\ j \in adj[i]
                       /\ (<<i, j>> \in DOMAIN b => b[<<i, j>>])
                       /\ j # imm]
            ELSE updated,
            adj, imm, b)

UpdatedListInPlace(matrix, adj, imm, b) == SpreadLoopInPlace(0, matrix, adj, imm, b)

\* Lines 167-173 with the outer loop over range(len(self.infectionMatrix) - 1):
\* the last node never infects.
RECURSIVE SpreadLoopSkipLast(_, _, _, _, _, _)
SpreadLoopSkipLast(i, updated, matrix, adj, imm, b) ==
    IF i >= Cardinality(DOMAIN matrix) - 1 THEN updated
    ELSE SpreadLoopSkipLast(i + 1,
            IF matrix[i]
            THEN [j \in DOMAIN updated |->
                    updated[j] \/ (j \in adj[i] /\ b[<<i, j>>] /\ j # imm)]
            ELSE updated,
            matrix, adj, imm, b)

UpdatedListSkipLast(matrix, adj, imm, b) == SpreadLoopSkipLast(0, matrix, matrix, adj, imm, b)

\* Lines 167-173 without the test j != self.immune.
RECURSIVE SpreadLoopNoImmune(_, _, _, _, _, _)
SpreadLoopNoImmune(i, updated, matrix, adj, imm, b) ==
    IF i >= Cardinality(DOMAIN matrix) THEN updated
    ELSE SpreadLoopNoImmune(i + 1,
            IF matrix[i]
            THEN [j \in DOMAIN updated |->
                    updated[j] \/ (j \in adj[i] /\ b[<<i, j>>])]
            ELSE updated,
            matrix, adj, imm, b)

UpdatedListNoImmune(matrix, adj, imm, b) == SpreadLoopNoImmune(0, matrix, matrix, adj, imm, b)

\* Lines 167-173: updated_list starts as a copy; for every i infected in
\* self.infectionMatrix and every neighbour j of i, the draw b[i, j] and the
\* test j != self.immune decide updated_list[j] = True.
RECURSIVE SpreadLoop(_, _, _, _, _, _)
SpreadLoop(i, updated, matrix, adj, imm, b) ==
    IF i >= Cardinality(DOMAIN matrix) THEN updated
    ELSE SpreadLoop(i + 1,
            IF matrix[i]
            THEN [j \in DOMAIN updated |->
                    updated[j] \/ (j \in adj[i] /\ b[<<i, j>>] /\ j # imm)]
            ELSE updated,
            matrix, adj, imm, b)

\* updated_list starts as a list of False entries, not as a copy.
UpdatedListFromFalse(matrix, adj, imm, b) ==
    SpreadLoop(0, [v \in DOMAIN matrix |-> FALSE], matrix, adj, imm, b)

UpdatedList(matrix, adj, imm, b) == SpreadLoop(0, matrix, matrix, adj, imm, b)

\* The (i, j) a spread_infection call draws for: i infected, j a neighbour.
InfectedArcs(matrix, adj) ==
    {a \in (DOMAIN matrix) \X (DOMAIN matrix) : matrix[a[1]] /\ a[2] \in adj[a[1]]}

\* The outcomes of the draws of one spread_infection call, one per (i, j).
\* updated_list starts as a copy and updated_list[j] is only ever set to
\* True, so the result depends on the draws only through whether some draw
\* for the neighbour j succeeded.  A draw for a j that is already infected
\* in the snapshot changes nothing: one outcome is kept for those.  The
\* draws for one not yet infected j are given a common outcome, every
\* combination over the different j: each result that independent draws
\* produce is produced.
SpreadDraws(matrix, adj, rate) ==
    LET targets == {j \in DOMAIN matrix : ~matrix[j] /\ \E i \in adj[j] : matrix[i]}
        o == CHOOSE x \in Bernoulli(rate) : TRUE
    IN {[a \in InfectedArcs(matrix, adj) |-> IF matrix[a[2]] THEN o ELSE h[a[2]]] :
            h \in [targets -> Bernoulli(rate)]}

\* The counting loop starts at index 1.
CountInfectedFromOne(matrix) == Cardinality({v \in DOMAIN matrix : v >= 1 /\ matrix[v]})

\* spread_infection also clears self.immune.
SpreadClearsImmune(self, b) ==
    [network |-> self.network,
     infectionMatrix |-> UpdatedList(self.infectionMatrix, self.network, self.immune, b),
     immune |-> -1]

\* Lines 167-173: the object after spread_infection. self.network and
\* self.immune are only read (lines 170, 171); line 173 assigns
\* self.infectionMatrix and nothing else.
SpreadObject(self, b) ==
    [self EXCEPT !.infectionMatrix =
        UpdatedList(self.infectionMatrix, self.network, self.immune, b)]

\* Lines 157-161: the number of True entries.
CountInfected(matrix) == Cardinality({v \in DOMAIN matrix : matrix[v]})


\* --------------------------------------------------------------- Init
\* number_infected(networks, days, centrality) has just set total = []
\* (line 60) and is about to construct the NetworkAnalysis object (line 61).
\* The parameter days of number_infected is read for the first time when
\* line 66 passes it to spread_infection_for_n_days: the variable days is
\* the argument of that call, chosen at the first call and the same at
\* every later one.
InitWith(nodeCounts, trialCounts, edgeProbabilities) ==
    /\ nodeCount \in nodeCounts
    /\ centrality \in Measures
    /\ days = 0
    /\ networks \in trialCounts
    /\ edgeProbability \in edgeProbabilities
    /\ infectionRate \in Probabilities
    /\ network = EmptyGraph(0)
    /\ infectionMatrix = <<>>
    /\ immune = -1
    /\ examined = <<>>
    /\ drawn = {}
    /\ picked = -1
    /\ dictionary = <<>>
    /\ nodes = <<>>
    /\ current_node = -1
    /\ day = 0
    /\ total_infected = 0
    /\ trial = 0
    /\ total = <<>>
    /\ caller = "ctor"
    /\ pc = "generate"

\* number_infected(networks, days, centrality) on small networks.
Init == InitWith(1 .. SmallNodes, 0 .. MaxTrials, Probabilities)

\* number_infected(1, days, centrality): the constructor and one trial.
InitTrial == InitWith(1 .. MaxNodes, {1}, Probabilities)

\* One trial with EDGE_PROBABILITY = 1: every network is complete.
InitComplete == InitWith(1 .. CompleteNodes, {1}, {100})

\* ------------------------------------------------------------ actions
\* The failed trial is dropped and the loop of line 62 goes on.
SkipFailedTrial == "loop"

\* Where control goes when a call made by lines 61-66 raises: the file has
\* no try statement, so the exception leaves number_infected and no line of
\* it runs afterwards.
Uncaught == "raised"

\* The list keeps the entries it had and is only brought to length n.
KeepInfectionMatrix(n) ==
    [v \in Range(n) |-> v \in DOMAIN infectionMatrix /\ infectionMatrix[v]]

\* Lines 88-90: self.infectionMatrix is a new list of n entries False.
ResetInfectionMatrix(n) == [v \in Range(n) |-> FALSE]

\* generate_new_network up to the call of immunize_node (lines 85-103).
generate_new_network ==
    /\ pc = "generate"
    /\ \E r \in [LoopPairs(nodeCount) -> Bernoulli(edgeProbability)] :
          \E g \in {GenerateEdges(nodeCount, r)} :
             /\ network' = g.adj
             /\ examined' = g.examined
             /\ drawn' = {p \in LoopPairs(nodeCount) : r[p]}
    /\ infectionMatrix' = ResetInfectionMatrix(nodeCount)
    /\ immune' = -1
    /\ picked' = -1
    /\ current_node' = -1
    /\ pc' = "immunize"
    /\ UNCHANGED <<config, days, driver, dictionary, nodes, day, total_infected>>

\* immunize_node under one of the five centralities (lines 116-125, 130-138).
immunize_node ==
    /\ pc = "immunize"
    /\ \E d \in Scores(centrality, network) :
          \E lst \in {Leaders(d)} :
             /\ dictionary' = d
             /\ nodes' = lst
             /\ IF Len(lst) = 0
                THEN \* random.randrange(0) raises ValueError
                     /\ pc' = Uncaught
                     /\ UNCHANGED <<immune, picked>>
                ELSE /\ \E k \in 1 .. Len(lst) :
                           /\ immune' = lst[k]
                           /\ picked' = lst[k]
                     /\ pc' = "infect"
    /\ UNCHANGED <<config, days, driver, network, infectionMatrix, examined, drawn,
                   current_node, day, total_infected>>

\* eigenvector_centrality raises PowerIterationFailedConvergence (line 125);
\* nothing catches it.
immunize_node_raise ==
    /\ pc = "immunize"
    /\ centrality = "eigenvector"
    /\ pc' = Uncaught
    /\ UNCHANGED <<config, driver, object, locals>>

\* immunize_node under "random" or any other name (lines 126-128): the draw
\* is bound to the local name immune, self.immune is not assigned.
immunize_node_random ==
    /\ pc = "immunize"
    /\ centrality \notin {"degree", "closeness", "clustering", "betweenness", "eigenvector"}
    /\ \E x \in Range(Cardinality(DOMAIN infectionMatrix)) : picked' = x
    /\ pc' = "infect"
    /\ UNCHANGED <<config, days, driver, object, examined, drawn, dictionary, nodes,
                   current_node, day, total_infected>>

\* infect_random_node, line 144: the first draw.
infect_random_node ==
    /\ pc = "infect"
    /\ \E x \in Range(Cardinality(DOMAIN infectionMatrix)) : current_node' = x
    /\ dictionary' = <<>>
    /\ nodes' = <<>>
    /\ pc' = "infectLoop"
    /\ UNCHANGED <<config, days, driver, object, examined, drawn, picked, day, total_infected>>

\* infect_random_node, lines 145-146: the draw hit the immune node, draw again.
infect_random_node_retry ==
    /\ pc = "infectLoop"
    /\ current_node = immune
    /\ \E x \in Range(Cardinality(DOMAIN infectionMatrix)) : current_node' = x
    /\ UNCHANGED <<config, days, driver, object, examined, drawn, picked, dictionary, nodes,
                   day, total_infected, pc>>

\* infect_random_node, line 147, and the return of generate_new_network: to
\* the constructor's caller (line 62), or to line 66, which calls
\* spread_infection_for_n_days(days).
infect_random_node_mark ==
    /\ pc = "infectLoop"
    /\ current_node # immune
    /\ infectionMatrix' = [infectionMatrix EXCEPT ![current_node] = TRUE]
    /\ day' = 0
    /\ days' \in IF caller = "ctor" THEN {days}
                 ELSE IF trial = 0 THEN 0 .. MaxDays
                 ELSE {days}
    /\ pc' = IF caller = "ctor" THEN "loop" ELSE "spread"
    /\ UNCHANGED <<config, driver, network, immune, examined, drawn, picked, dictionary,
                   nodes, current_node, total_infected>>

\* number_infected, lines 62-65: the next trial starts.
number_infected_trial ==
    /\ pc = "loop"
    /\ trial < networks
    /\ caller' = "trial"
    /\ pc' = "generate"
    /\ UNCHANGED <<config, object, locals, trial, total>>

\* spread_infection_for_n_days, lines 155-156: one day, one spread_infection.
spread_infection ==
    /\ pc = "spread"
    /\ day < days
    /\ \E b \in SpreadDraws(infectionMatrix, network, infectionRate) :
          \E self \in {SpreadObject([network |-> network,
                                     infectionMatrix |-> infectionMatrix,
                                     immune |-> immune], b)} :
             /\ network' = self.network
             /\ infectionMatrix' = self.infectionMatrix
             /\ immune' = self.immune
    /\ day' = day + 1
    /\ UNCHANGED <<config, days, driver, examined, drawn, picked, dictionary,
                   nodes, current_node, total_infected, pc>>

\* spread_infection_for_n_days, lines 157-161: the days are over, count.
spread_infection_for_n_days_count ==
    /\ pc = "spread"
    /\ day >= days
    /\ total_infected' = CountInfected(infectionMatrix)
    /\ pc' = "append"
    /\ UNCHANGED <<config, days, driver, object, examined, drawn, picked, dictionary, nodes,
                   current_node, day>>

\* total keeps only the latest count.
KeepLast(t, x) == <<x>>

\* total.append(x), line 66.
AppendTotal(t, x) == Append(t, x)

\* number_infected, line 66: the returned count is appended.
number_infected_append ==
    /\ pc = "append"
    /\ total' = AppendTotal(total, total_infected)
    /\ trial' = trial + 1
    /\ total_infected' = 0
    /\ pc' = "loop"
    /\ UNCHANGED <<config, days, object, examined, drawn, picked, dictionary, nodes,
                   current_node, day, caller>>

\* number_infected, line 67: return total.
number_infected_return ==
    /\ pc = "loop"
    /\ trial >= networks
    /\ pc' = "done"
    /\ UNCHANGED <<config, object, locals, driver>>

Next ==
    \/ generate_new_network
    \/ immunize_node
    \/ immunize_node_raise
    \/ immunize_node_random
    \/ infect_random_node
    \/ infect_random_node_retry
    \/ infect_random_node_mark
    \/ number_infected_trial
    \/ spread_infection
    \/ spread_infection_for_n_days_count
    \/ number_infected_append
    \/ number_infected_return

Spec == Init /\ [][Next]_vars

SpecTrial == InitTrial /\ [][Next]_vars

SpecComplete == InitComplete /\ [][Next]_vars

\* One trial of a program that keeps running, whose draws at line 146 are
\* fair: while the loop of lines 145-146 goes on, a draw other than
\* self.immune eventually comes out when there is one.
SpecFair ==
    /\ InitTrial
    /\ [][Next]_vars
    /\ WF_vars(Next)
    /\ WF_vars(infect_random_node_retry /\ current_node' # immune)


\* ------------------------------------------------------------- claims
Nodes == Range(nodeCount)

\* generate_new_network has returned at least once and is not running.
Generated == pc \in {"loop", "spread", "append", "done"}

\* Every node can reach every other node.
Connected(adj) == \A u \in DOMAIN adj : \A v \in DOMAIN adj : Dist(adj, u, v) >= 0

\* The network with node x and its edges removed.
Without(adj, x) == [v \in (DOMAIN adj) \ {x} |-> adj[v] \ {x}]

\* C1: the node immunize_node selected for the trial is never infected, for
\* every measure name and every outcome of the draws (nodeCount >= 2, the
\* configurations the specification calls valid).
C1_ImmuneNeverInfected ==
    (nodeCount >= 2 /\ picked \in Nodes) => ~infectionMatrix[picked]

\* C2: when infect_random_node has returned, the node it marked infected is
\* not the node immunize_node selected for the trial (nodeCount >= 2).
C2_SeedNotImmune ==
    (nodeCount >= 2 /\ Generated /\ current_node \in Nodes) => current_node # picked

\* C3: after generate_new_network, under every measure name, self.immune is
\* one node id in [0, nodeCount), the node immunize_node selected, and that
\* node is neither the seed nor infected (nodeCount >= 2).
C3_ImmuneRecorded ==
    (nodeCount >= 2 /\ Generated) =>
        /\ immune \in Nodes
        /\ immune = picked
        /\ current_node # immune
        /\ ~infectionMatrix[immune]

\* C4: with infectionRate = 0 spread_infection_for_n_days returns exactly 1,
\* whatever the day count, the network and the measure.
C4_RateZeroOnlySeed ==
    infectionRate = 0 =>
        /\ pc = "append" => total_infected = 1
        /\ \A k \in DOMAIN total : total[k] = 1

\* C4 witness: a count is returned at rate 0 after two or more days on a
\* network where the seed has a neighbour that is not immune.
C4_Witness ==
    /\ infectionRate = 0
    /\ pc = "append"
    /\ days >= 2
    /\ total_infected = 1
    /\ \E j \in network[current_node] : j # immune

\* C5 as claimed: with infectionRate = 1 and a connected network, the count
\* returned after at least nodeCount days is nodeCount - 1 (stated for
\* nodeCount >= 2 and a trial whose immune node self.immune is a node).
C5_Original ==
    (/\ pc = "append"
     /\ nodeCount >= 2
     /\ immune \in Nodes
     /\ infectionRate = 100
     /\ days >= nodeCount
     /\ Connected(network))
    => total_infected = nodeCount - 1

\* C5 amended: with infectionRate = 1 and a connected network that is still
\* connected once the node self.immune is removed, after at least nodeCount
\* days exactly the nodes other than self.immune are infected: the count is
\* nodeCount - 1 when self.immune is a node id, and nodeCount when it is not.
C5_AllButImmune ==
    (/\ pc = "append"
     /\ infectionRate = 100
     /\ days >= nodeCount
     /\ Connected(network)
     /\ Connected(Without(network, immune)))
    => /\ \A v \in Nodes : infectionMatrix[v] <=> (v # immune)
       /\ total_infected = IF immune \in Nodes THEN nodeCount - 1 ELSE nodeCount

\* C5 witness: three nodes, the immune one not a cut vertex, and the two
\* others infected after three days.
C5_Witness ==
    /\ pc = "append"
    /\ infectionRate = 100
    /\ nodeCount = 3
    /\ days >= nodeCount
    /\ immune \in Nodes
    /\ Connected(network)
    /\ Connected(Without(network, immune))
    /\ Cardinality(network[immune]) = 1
    /\ total_infected = 2


\* Every two distinct nodes are adjacent.
Complete(adj) == \A v \in DOMAIN adj : adj[v] = (DOMAIN adj) \ {v}

\* Node c is adjacent to every other node, and the others only to c.
Star(adj, c) ==
    /\ Cardinality(DOMAIN adj) >= 3
    /\ adj[c] = (DOMAIN adj) \ {c}
    /\ \A v \in (DOMAIN adj) \ {c} : adj[v] = {c}

\* The elements of a list.
Elements(lst) == {lst[k] : k \in DOMAIN lst}

\* C6: on a complete graph (edgeProbability = 1) with nodeCount >= 2,
\* infectionRate = 1 and the "degree" measure, nodeCount - 1 nodes are
\* infected after 1 day and after every later day, and that is the count
\* returned when days >= 1, whatever the immune node and the seed.
C6_CompleteGraphCount ==
    (/\ edgeProbability = 100
     /\ infectionRate = 100
     /\ centrality = "degree"
     /\ nodeCount >= 2)
    => /\ (pc = "spread" /\ day >= 1) => CountInfected(infectionMatrix) = nodeCount - 1
       /\ (pc = "append" /\ days >= 1) => total_infected = nodeCount - 1
       /\ \A k \in DOMAIN total : days >= 1 => total[k] = nodeCount - 1

\* C6 witness: the scenario nodeCount = 5, days = 2 has returned 4.
C6_Witness ==
    /\ edgeProbability = 100
    /\ infectionRate = 100
    /\ centrality = "degree"
    /\ nodeCount = 5
    /\ days = 2
    /\ pc = "done"
    /\ total = <<4>>

\* C7: in one spread_infection step, a node not infected before the step is
\* infected after it only if one of its neighbours was infected before the
\* step.
C7_OneHopPerDay ==
    [][(pc = "spread" /\ pc' = "spread") =>
          \A j \in Nodes :
              (~infectionMatrix[j] /\ infectionMatrix'[j]) =>
                  \E i \in network[j] : infectionMatrix[i]]_vars

\* C7 witness: after the first step at infectionRate = 1 a neighbour of the
\* seed is infected, and a node two edges from the seed, not immune and next
\* to that neighbour, is not.
C7_Witness ==
    /\ pc = "spread"
    /\ day = 1
    /\ infectionRate = 100
    /\ \E i \in network[current_node] :
          /\ infectionMatrix[i]
          /\ \E j \in network[i] :
                /\ j # immune
                /\ j # current_node
                /\ j \notin network[current_node]
                /\ ~infectionMatrix[j]

\* C8: under each of the five centralities the list nodes built by
\* immunize_node is non-empty, has no repetition, and holds exactly the nodes
\* whose score is the maximum score, so the immune node has maximal score;
\* under "degree" a complete graph gives all nodes and a star its centre.
C8_TiedAreTheMaxima ==
    (pc = "infect" /\ centrality \in CENTRALITIES \ {"random"}) =>
        LET top == {v \in Nodes : \A u \in Nodes : dictionary[u] <= dictionary[v]}
        IN /\ Len(nodes) > 0
           /\ Cardinality(Elements(nodes)) = Len(nodes)
           /\ Elements(nodes) = top
           /\ immune \in top
           /\ (centrality = "degree" /\ Complete(network)) => Elements(nodes) = Nodes
           /\ \A c \in Nodes :
                 (centrality = "degree" /\ Star(network, c)) => nodes = <<c>>

\* C8 witness: under "degree" a star on three nodes whose centre is not
\* node 0 has given the centre alone.
C8_Witness ==
    /\ pc = "infect"
    /\ centrality = "degree"
    /\ nodeCount = 3
    /\ \E c \in Nodes \ {0} : Star(network, c) /\ nodes = <<c>> /\ immune = c

\* C9: a generated network has the nodes 0..nodeCount-1, no self-loop,
\* symmetric adjacency within the node set, and the edge loop has drawn for
\* each pair i < j exactly once.
C9_SimpleGraph ==
    ~(pc = "generate" /\ caller = "ctor") =>
        /\ DOMAIN network = Nodes
        /\ \A v \in Nodes : v \notin network[v] /\ network[v] \subseteq Nodes
        /\ \A u \in Nodes : \A v \in Nodes : (u \in network[v]) <=> (v \in network[u])
        /\ Elements(examined) = LoopPairs(nodeCount)
        /\ Len(examined) = Cardinality(LoopPairs(nodeCount))
        /\ 2 * Len(examined) = nodeCount * (nodeCount - 1)

\* C9 witness: on three nodes the network with the single edge {0, 2} has
\* been generated.
C9_Witness ==
    /\ pc = "immunize"
    /\ nodeCount = 3
    /\ Len(examined) = 3
    /\ network[0] = {2}
    /\ network[1] = {}
    /\ network[2] = {0}

\* C10: number_infected runs exactly networks trials and returns a list of
\* networks counts; total only changes by appending the count of the trial
\* that just ended, which is the number of infected nodes of that trial.
C10_OneCountPerTrial ==
    /\ [](Len(total) = trial /\ trial <= networks)
    /\ [](pc = "done" => (trial = networks /\ Len(total) = networks))
    /\ [][total' # total =>
            /\ pc = "append"
            /\ total_infected = CountInfected(infectionMatrix)
            /\ total' = Append(total, total_infected)
            /\ trial' = trial + 1]_vars

\* C10 witness: two trials have returned two different counts.
C10_Witness ==
    /\ pc = "done"
    /\ networks = 2
    /\ Len(total) = 2
    /\ total[1] # total[2]

\* C11: when the importance computation of a trial fails, the failure leaves
\* number_infected: immunize_node either selects a node or ends in the
\* raised state, and from the raised state no step is taken, so no later
\* trial runs, the failed trial is neither retried nor skipped, nothing is
\* appended to total and total is not returned.
C11_FailurePropagates ==
    /\ [][(pc = "immunize" /\ pc' # "infect") => pc' = "raised"]_vars
    /\ [][pc # "raised"]_vars
    /\ [](pc = "raised" => (trial < networks \/ caller = "ctor") /\ Len(total) = trial)

\* C11 witness: eigenvector_centrality has raised in the second of two
\* trials, after the first trial's count was appended.
C11_Witness ==
    /\ pc = "raised"
    /\ centrality = "eigenvector"
    /\ caller = "trial"
    /\ networks = 2
    /\ trial = 1
    /\ Len(total) = 1

\* generate_new_network has just returned: to the constructor's caller, or
\* to line 66 before the first spread step.
Returned == (pc = "loop" /\ caller = "ctor") \/ (pc = "spread" /\ day = 0)

\* C12: when generate_new_network returns, in the constructor and in every
\* trial, infectionMatrix has nodeCount entries of which exactly the new
\* seed is True, the edges are exactly the pairs drawn below
\* EDGE_PROBABILITY in this call, and self.immune is what this call's
\* immunize_node left (a top-scored node of the new network under the
\* centralities, the -1 of line 92 otherwise): nothing of the earlier
\* calls remains.
C12_NoCarryOver ==
    Returned =>
        /\ DOMAIN infectionMatrix = Nodes
        /\ {v \in Nodes : infectionMatrix[v]} = {current_node}
        /\ DOMAIN network = Nodes
        /\ \A i \in Nodes : \A j \in Nodes :
              (j \in network[i]) <=> (<<i, j>> \in drawn \/ <<j, i>> \in drawn)
        /\ immune = IF centrality \in CENTRALITIES \ {"random"} THEN picked ELSE -1
        /\ centrality \in {"degree", "closeness", "clustering", "betweenness"} =>
              \E d \in Scores(centrality, network) : immune \in Elements(Leaders(d))

\* C12 witness: the first trial ended with both nodes infected over the
\* edge {0, 1}; the second trial's network has no edge and one infected
\* node, its seed.
C12_Witness ==
    /\ pc = "spread"
    /\ day = 0
    /\ trial = 1
    /\ nodeCount = 2
    /\ total = <<2>>
    /\ network[0] = {}
    /\ CountInfected(infectionMatrix) = 1
    /\ infectionMatrix[current_node]

\* C13, second half as claimed: with nodeCount = 1 the loop of
\* infect_random_node does not terminate, under any measure name: no node
\* is ever marked infected and generate_new_network never returns.
C13_OneNodeNeverSeeded ==
    nodeCount = 1 =>
        /\ pc \in {"generate", "immunize", "infect", "infectLoop", "raised"}
        /\ CountInfected(infectionMatrix) = 0

\* C13, first half: with nodeCount >= 2 and fair draws the loop of
\* infect_random_node is left, and the node marked on leaving it is not
\* self.immune.
C13_TwoNodesTerminate ==
    /\ (nodeCount >= 2 /\ pc = "infectLoop") ~> (pc # "infectLoop")
    /\ [][(pc = "infectLoop" /\ pc' # "infectLoop") =>
            /\ current_node # immune
            /\ infectionMatrix'[current_node]]_vars

\* A configuration outside the ranges the specification calls valid, among
\* the inputs of the model: fewer than two nodes or fewer than two trials.
InvalidConfiguration == nodeCount <= 1 \/ networks < 2

\* C14 as claimed: an invalid configuration is rejected before any trial
\* runs: no network is generated, no node is immunized or infected, no
\* count is appended and nothing is returned.
C14_InvalidRejected ==
    InvalidConfiguration =>
        /\ pc \in {"generate", "raised"}
        /\ caller = "ctor"
        /\ network = EmptyGraph(0)
        /\ infectionMatrix = <<>>
        /\ immune = -1
        /\ total = <<>>

\* C15: the value spread_infection_for_n_days returns lies in
\* [0, nodeCount] and is the number of True entries of infectionMatrix at
\* the return, for every measure, network, day count and draws; so does
\* every count kept in total.
C15_CountOfTrueEntries ==
    /\ pc = "append" =>
          /\ total_infected \in 0 .. nodeCount
          /\ DOMAIN infectionMatrix = Nodes
          /\ total_infected = Cardinality({v \in Nodes : infectionMatrix[v]})
          /\ total_infected + Cardinality({v \in Nodes : ~infectionMatrix[v]}) = nodeCount
    /\ \A k \in DOMAIN total : total[k] \in 0 .. nodeCount

\* C15 witness: on three nodes, after two days, 2 is returned while nodes
\* 0 and 2 are infected and node 1 is not.
C15_Witness ==
    /\ pc = "append"
    /\ nodeCount = 3
    /\ days = 2
    /\ total_infected = 2
    /\ infectionMatrix[0]
    /\ ~infectionMatrix[1]
    /\ infectionMatrix[2]

\* C16: a step of spread_infection_for_n_days, a spread_infection or the
\* final count, leaves the network's nodes and edges and self.immune as
\* they were, and the count leaves infectionMatrix as well; self.immune
\* only changes inside generate_new_network, at line 92 or in
\* immunize_node, so it is fixed from the end of immunize_node to the next
\* generate_new_network.
C16_SpreadFrame ==
    /\ [][pc = "spread" =>
            /\ network' = network
            /\ DOMAIN network' = Nodes
            /\ immune' = immune
            /\ DOMAIN infectionMatrix' = DOMAIN infectionMatrix
            /\ pc' # "spread" => infectionMatrix' = infectionMatrix]_vars
    /\ [][immune' # immune => pc \in {"generate", "immunize"}]_vars
    /\ [][network' # network => pc = "generate"]_vars

\* C16 witness: three spread steps have infected two more nodes while
\* self.immune is still the node immunize_node selected, next to an
\* infected node.
C16_Witness ==
    /\ pc = "spread"
    /\ day = 3
    /\ immune \in Nodes
    /\ immune = picked
    /\ \E i \in network[immune] : infectionMatrix[i]
    /\ ~infectionMatrix[immune]
    /\ Cardinality({v \in Nodes : infectionMatrix[v]}) >= 2

\* C17: every node infected before a spread_infection step is infected
\* after it, so the number of infected nodes does not decrease from one
\* day to the next; from the seeding to the next generate_new_network at
\* least one node, the seed, is infected, and every returned count is at
\* least 1.
C17_InfectionNeverLost ==
    /\ [][(pc = "spread" /\ pc' = "spread") =>
            /\ \A v \in Nodes : infectionMatrix[v] => infectionMatrix'[v]
            /\ Cardinality({v \in Nodes : infectionMatrix'[v]})
                  >= Cardinality({v \in Nodes : infectionMatrix[v]})]_vars
    /\ [](Generated =>
            /\ infectionMatrix[current_node]
            /\ Cardinality({v \in Nodes : infectionMatrix[v]}) >= 1)
    /\ [](pc = "append" => total_infected >= 1)
    /\ [](\A k \in DOMAIN total : total[k] >= 1)

\* C17 witness: at infectionRate = 0.5 the seed and one neighbour are
\* infected after two days, another neighbour of the seed that is not
\* immune is not.
C17_Witness ==
    /\ pc = "spread"
    /\ day = 2
    /\ infectionRate = 50
    /\ infectionMatrix[current_node]
    /\ \E i \in network[current_node] : infectionMatrix[i]
    /\ \E j \in network[current_node] : j # immune /\ ~infectionMatrix[j]

\* Length of a shortest path from the seed to v that avoids the node
\* self.immune, -1 when there is none.
SeedDist(v) == Dist(Without(network, immune), current_node, v)

\* C18: after d spread_infection steps every infected node is joined to
\* the seed by a path of at most d edges that does not pass through the
\* node self.immune; with infectionRate = 1 the infected nodes after d
\* steps are exactly the nodes within distance d of the seed in the
\* network without that node.
C18_WithinDistance ==
    pc \in {"spread", "append"} =>
        /\ \A v \in Nodes : infectionMatrix[v] => SeedDist(v) \in 0 .. day
        /\ infectionRate = 100 =>
              \A v \in Nodes : infectionMatrix[v] <=> SeedDist(v) \in 0 .. day

\* C18 witness: at infectionRate = 1 a node two edges from the seed is
\* infected after the second step, and was out of reach of the first.
C18_Witness ==
    /\ pc = "spread"
    /\ day = 2
    /\ infectionRate = 100
    /\ \E v \in Nodes : infectionMatrix[v] /\ SeedDist(v) = 2

====
